---- MODULE Spec2Model ----
(***************************************************************************)
(* A model of maggma's S3Store (src/src/maggma/stores/aws.py): a store     *)
(* that keeps full documents as objects of an S3 bucket and their metadata *)
(* in a wrapped index Store.                                               *)
(*                                                                         *)
(* Values.  Python values are tagged one-field records, so that values of  *)
(* different Python types are comparable (and different):                  *)
(*    [s |-> "k1"]    a str                                                *)
(*    [us |-> 2500]   a datetime, in microseconds                          *)
(*    [iso |-> 3]     the str isoformat(timespec="milliseconds") of the    *)
(*                    datetime of 3 whole milliseconds                     *)
(*    [mdt |-> 2500]  monty's msgpack encoding of a datetime (its str(),   *)
(*                    microseconds kept)                                   *)
(* A dict is a function from field names to values; the index Store is a   *)
(* dict from key values to index entries and the bucket a dict from object *)
(* keys to objects.  Key values are strings: boto3 takes only str values   *)
(* as object Metadata, and the key value is always part of it.             *)
(*                                                                         *)
(* Specifications.  Spec is the store in use: connect, update, query,      *)
(* remove_docs, rebuild_index_from_s3_data and the operations passed on to *)
(* the index store.  The others start from their own initial states:       *)
(*    BulkSpec     remove_docs on an index of up to MaxBulk entries        *)
(*    LifeSpec     connect and close in any order, the bucket present or   *)
(*                 not                                                     *)
(*    EqSpec       __eq__ and __hash__ on pairs of objects                 *)
(*    MetaSpec     rebuild_metadata_from_index                             *)
(*    TimeSpec     dt_to_isoformat_ceil_ms and isostr_to_dt (maggma.utils) *)
(*    TimeoutSpec  a with Timeout(seconds) block (maggma.utils)            *)
(*    UtilSpec     grouper and substitute (maggma.utils)                   *)
(*    ConcSpec     update and remove_docs called from two threads          *)
(***************************************************************************)
EXTENDS Integers, Sequences, FiniteSets, TLC

\* ------------------------------------------------------------------ bounds
MaxBatch == 2      \* documents in one update() call
MaxBulk == 2500    \* entries of the largest index a remove_docs() is run on
MaxSeconds == 2    \* the largest seconds argument of a Timeout
MaxLen == 7        \* elements of the longest iterable given to grouper

\* ---------------------------------------- inputs and program constants
KeyOrder == <<"k1", "k2">>            \* the key values documents carry, in order
Keys == {KeyOrder[i] : i \in DOMAIN KeyOrder}
\* the key values of a large index, in order: "b1", "b2", ...
BulkOrder == [i \in 1..MaxBulk |-> "b" \o ToString(i)]
Versions == {1, 2}                    \* two contents a document of a key may have
SubDirArgs == {"", "sub"}             \* the sub_dir argument of __init__
WorkersArgs == {1, 2}                 \* the s3_workers argument of __init__
ChunkSize == 1000                     \* keys of one delete_objects call
BucketArg == "bucket1"                \* the bucket argument of __init__
ErrorCodes == {"404", "403"}          \* e.response["Error"]["Code"] of a ClientError

VARIABLES
    sub_dir,       \* self.sub_dir
    compress,      \* self.compress
    s3_workers,    \* self.s3_workers
    s3_bucket,     \* self.s3_bucket: "None" or "Bucket"
    index,         \* the wrapped index Store: key value -> index entry
    bucket,        \* the S3 bucket: object key -> [Body, Metadata]
    call,          \* the caller's call in progress, with its local variables
    s3,            \* self.s3: "None" or "resource"
    index_open,    \* whether the wrapped index Store is connected
    buckets,       \* the names of the buckets present on the service
    sigalrm,       \* the process's SIGALRM state: pending alarm and handler
    peer           \* a second caller's thread: its call, held while call runs

vars == <<sub_dir, compress, s3_workers, s3_bucket, index, bucket, call,
          s3, index_open, buckets, sigalrm, peer>>
config == <<sub_dir, compress, s3_workers>>
env == <<s3, index_open, buckets, sigalrm, peer>>

\* ------------------------------------------------------------------ values
Str(v) == [s |-> v]
Dt(micro) == [us |-> micro]
Iso(milli) == [iso |-> milli]
IsDt(v) == DOMAIN v = {"us"}

Range(f) == {f[i] : i \in DOMAIN f}
EmptyDict == [e \in {} |-> 0]
\* d with d[k] = v added or replaced (d[k] = v in Python)
SetItem(d, k, v) == [e \in DOMAIN d \cup {k} |-> IF e = k THEN v ELSE d[e]]
\* d without k (del d[k])
DelItem(d, k) == [e \in DOMAIN d \ {k} |-> d[e]]

key == "task_id"
last_updated_field == "last_updated"

\* The documents callers write.
XVal(ver) == IF ver = 1 THEN "a" ELSE "b"
LuVal(ver) == IF ver = 1 THEN 1000 ELSE 2500
DocOf(k, ver) ==
    [f \in {key, "x", last_updated_field, "_id"} |->
        IF f = key THEN Str(k)
        ELSE IF f = "x" THEN Str(XVal(ver))
        ELSE IF f = "_id" THEN Str("id-" \o k)
        ELSE Dt(LuVal(ver))]
Docs == {DocOf("k1", ver) : ver \in Versions} \cup {DocOf("k2", 1)}

\* The key argument of update(): None, one field name, or a list of them.
KeyArgs == {[none |-> TRUE], [s |-> key], [list |-> <<"_id", "x", last_updated_field>>]}


\* ------------------------------------------------------- S3Store.__init__
\* sub_dir.strip("/") + "/" if sub_dir else ""
SubDirOf(arg) == IF arg = "" THEN "" ELSE IF arg \in {"sub", "sub/", "/sub"} THEN "sub/" ELSE arg \o "/"

\* ------------------------------------------------------------ maggma.utils
\* a bug: the millisecond is not added, the value is truncated
dt_to_isoformat_floor_ms(dt) == Iso(dt.us \div 1000)
\* (dt + timedelta(milliseconds=1)).isoformat(timespec="milliseconds"): the
\* string of the whole milliseconds of dt + 1 ms
dt_to_isoformat_ceil_ms(dt) == Iso((dt.us + 1000) \div 1000)

\* ------------------------------------------------- msgpack, monty and zlib
\* monty.msgpack.default: a datetime becomes a dict holding its str()
monty_default(v) == IF IsDt(v) THEN [mdt |-> v.us] ELSE v
\* monty.msgpack.object_hook: that dict becomes a datetime again
monty_object_hook(v) == IF DOMAIN v = {"mdt"} THEN Dt(v.mdt) ELSE v
\* msgpack.packb(doc, default=monty_default)
packb(doc) == [packed |-> [f \in DOMAIN doc |-> monty_default(doc[f])]]
\* zlib.compress(data)
zlib_compress(data) == [z |-> data]
\* zlib.decompress(data): zlib.error on data that is no zlib stream
zlib_decompress(data) == IF DOMAIN data = {"z"} THEN data.z ELSE [error |-> "zlib.error"]
\* msgpack.unpackb(data, object_hook=monty_object_hook, raw=False): fails on
\* bytes that are no msgpack encoding (a zlib stream, an earlier error)
unpackb(data) ==
    IF DOMAIN data = {"packed"}
    THEN [f \in DOMAIN data.packed |-> monty_object_hook(data.packed[f])]
    ELSE [error |-> "msgpack.error"]
IsError(v) == DOMAIN v = {"error"}

\* ------------------------------------------------- S3Store.write_doc_to_s3
\* search_keys of update(): the key argument as a list, else [self.key]
SearchKeysOf(karg) ==
    IF "list" \in DOMAIN karg THEN karg.list
    ELSE IF "s" \in DOMAIN karg THEN <<karg.s>>
    ELSE <<key>>

\* a bug: "_id" stays in search_doc
SearchDocKeepsId(doc, search_keys) ==
    LET sd1 == [f \in Range(search_keys) \cup {key} |-> doc[f]]
        sd2 == IF sub_dir # "" THEN SetItem(sd1, "sub_dir", Str(sub_dir)) ELSE sd1
        sd4 == IF compress THEN SetItem(sd2, "compression", Str("zlib")) ELSE sd2
    IN  IF last_updated_field \in DOMAIN sd4
        THEN SetItem(sd4, last_updated_field,
                     dt_to_isoformat_ceil_ms(sd4[last_updated_field]))
        ELSE sd4

\* the metadata write_doc_to_s3 computes for doc: the entry of the index
SearchDoc(doc, search_keys) ==
    LET sd1 == [f \in Range(search_keys) \cup {key} |-> doc[f]]
        sd2 == IF sub_dir # "" THEN SetItem(sd1, "sub_dir", Str(sub_dir)) ELSE sd1
        sd3 == IF "_id" \in DOMAIN sd2 THEN DelItem(sd2, "_id") ELSE sd2
        sd4 == IF compress THEN SetItem(sd3, "compression", Str("zlib")) ELSE sd3
    IN  IF last_updated_field \in DOMAIN sd4
        THEN SetItem(sd4, last_updated_field,
                     dt_to_isoformat_ceil_ms(sd4[last_updated_field]))
        ELSE sd4

\* the bytes write_doc_to_s3 puts as the object's Body
BodyOf(doc) == IF compress THEN zlib_compress(packb(doc)) ELSE packb(doc)

\* the Key of the object of a key value
ObjectKey(kv) == sub_dir \o kv

\* s3_bucket.put_object(Key=..., Body=..., Metadata=...)
put_object(bkt, okey, body, metadata) ==
    SetItem(bkt, okey, [Body |-> body, Metadata |-> metadata])

\* ------------------------------------------------------ the index Store
\* Store.update(docs): upsert, each document replacing the entry of its key,
\* in the order of docs
RECURSIVE IndexUpdate(_, _)
IndexUpdate(idx, docs) ==
    IF docs = <<>> THEN idx
    ELSE IndexUpdate(SetItem(idx, Head(docs)[key].s, Head(docs)), Tail(docs))

\* criteria select entries by key value: a set of key values ({} is Keys)
Matching(idx, criteria) == {k \in DOMAIN idx : k \in criteria}
\* Store.remove_docs(criteria)
IndexRemoveDocs(idx, criteria) ==
    [k \in DOMAIN idx \ Matching(idx, criteria) |-> idx[k]]

\* the entries of keys S in the order the index returns them
InOrder(order, S) == SelectSeq(order, LAMBDA e : e \in S)
\* the order of the entries of idx
IndexOrder(idx) == IF DOMAIN idx \subseteq Keys THEN KeyOrder ELSE KeyOrder \o BulkOrder
\* Store.query(criteria): the matching entries, in the index's order
IndexQuery(idx, criteria) ==
    LET ks == InOrder(IndexOrder(idx), Matching(idx, criteria))
    IN  [i \in 1..Len(ks) |-> idx[ks[i]]]
\* Store.distinct(field, criteria): the distinct values of field
IndexDistinct(idx, field, criteria) ==
    LET ks == InOrder(IndexOrder(idx), Matching(idx, criteria))
    IN  [i \in 1..Len(ks) |-> idx[ks[i]][field].s]

\* ---------------------------------------------------------- maggma.utils
\* a bug: an element is lost between two chunks
RECURSIVE grouperSkips(_, _)
grouperSkips(iterable, n) ==
    LET chunk == SubSeq(iterable, 1, IF n < Len(iterable) THEN n ELSE Len(iterable))
    IN  IF chunk = <<>> THEN <<>>
        ELSE <<chunk>> \o grouperSkips(SubSeq(iterable, Len(chunk) + 2, Len(iterable)), n)
\* grouper(iterable, n): lists of n elements taken from the front until an
\* empty list comes
RECURSIVE grouper(_, _)
grouper(iterable, n) ==
    LET chunk == SubSeq(iterable, 1, IF n < Len(iterable) THEN n ELSE Len(iterable))
    IN  IF chunk = <<>> THEN <<>>
        ELSE <<chunk>> \o grouper(SubSeq(iterable, Len(chunk) + 1, Len(iterable)), n)

\* ------------------------------------------------------------ the bucket
\* The bucket may be shared: another S3Store, constructed on the same bucket
\* with the other sub_dir, may have written objects before this one starts.
OtherSubDir == IF sub_dir = "" THEN "sub/" ELSE ""
ForeignMetadata(k) ==
    IF OtherSubDir = "" THEN [f \in {key} |-> Str(k)]
    ELSE [f \in {key, "sub_dir"} |-> IF f = key THEN Str(k) ELSE Str(OtherSubDir)]
ForeignObjects(F) ==
    [ok \in {OtherSubDir \o k : k \in F} |->
        LET k == CHOOSE e \in F : OtherSubDir \o e = ok
        IN  [Body |-> packb(DocOf(k, 1)), Metadata |-> ForeignMetadata(k)]]
ForeignSets == {{}, {"k2"}}
\* s3_bucket.objects.all(): every object of the bucket, in the order of keys
ObjectOrder == <<"k1", "k2", "sub/k1", "sub/k2">>
ObjectsAll(bkt) == InOrder(ObjectOrder, DOMAIN bkt)
\* s3_bucket.delete_objects(Delete={"Objects": objlist})
delete_objects(bkt, okeys) == [ok \in DOMAIN bkt \ okeys |-> bkt[ok]]

\* ---------------------------------------------------------------- state
Idle == [op |-> "idle"]
\* no alarm pending, the default disposition of SIGALRM
NoAlarm == [alarm |-> 0, handler |-> "SIG_DFL"]
Connected == s3_bucket # "None"

Init ==
    /\ \E a \in SubDirArgs : sub_dir = SubDirOf(a)
    /\ compress \in BOOLEAN
    /\ s3_workers \in WorkersArgs
    /\ s3_bucket = "None"
    /\ index = EmptyDict
    /\ \E F \in ForeignSets : bucket = ForeignObjects(F)
    /\ call = Idle
    /\ peer = Idle
    /\ s3 = "None"
    /\ index_open = FALSE
    /\ buckets = {BucketArg}
    /\ sigalrm = NoAlarm

\* S3Store.connect(): the bucket is looked up only while self.s3 is unset
Connect ==
    /\ call.op = "idle"
    /\ IF s3 = "None"
       THEN /\ s3' = "resource"
            /\ IF BucketArg \notin buckets
               THEN /\ call' = [op |-> "connect", phase |-> "raised",
                                present |-> FALSE, s3_before |-> s3]
                    /\ UNCHANGED <<s3_bucket, index_open>>
               ELSE /\ s3_bucket' = "Bucket"
                    /\ index_open' = TRUE
                    /\ call' = [op |-> "connect", phase |-> "returned",
                                present |-> TRUE, s3_before |-> s3]
       ELSE /\ index_open' = TRUE
            /\ call' = [op |-> "connect", phase |-> "returned",
                        present |-> BucketArg \in buckets, s3_before |-> s3]
            /\ UNCHANGED <<s3, s3_bucket>>
    /\ UNCHANGED <<config, buckets, sigalrm, peer, index, bucket>>

\* a bug: close() forgets the session resource
CloseKeepsS3 ==
    /\ call.op = "idle"
    /\ index_open' = FALSE
    /\ s3_bucket' = "None"
    /\ call' = [op |-> "close", phase |-> "returned",
                before |-> <<s3, s3_bucket, index_open>>]
    /\ UNCHANGED <<config, buckets, sigalrm, peer, index, bucket, s3>>

\* S3Store.close()
Close ==
    /\ call.op = "idle"
    /\ index_open' = FALSE
    /\ s3' = "None"
    /\ s3_bucket' = "None"
    /\ call' = [op |-> "close", phase |-> "returned",
                before |-> <<s3, s3_bucket, index_open>>]
    /\ UNCHANGED <<config, buckets, sigalrm, peer, index, bucket>>

\* the caller takes the result (or the exception) of its call
Return ==
    /\ call.op # "idle"
    /\ call.phase \in {"returned", "raised"}
    /\ call' = Idle
    /\ UNCHANGED <<config, env, s3_bucket, index, bucket>>

\* ------------------------------------------------------- S3Store.update
\* the docs argument: a list of different documents
Batches ==
    {b \in UNION {[1..n -> Docs] : n \in 1..MaxBatch} :
        \A i, j \in DOMAIN b : b[i] = b[j] => i = j}
Completed(fs) == \A i \in DOMAIN fs : fs[i] \in {"done", "failed"}
Running(fs) == {i \in DOMAIN fs : fs[i] = "running"}
\* a bug: the exception of a failed write is swallowed
FailedSwallowed(fs) == {}
\* the futures whose result() raises
Failed(fs) == {i \in DOMAIN fs : fs[i] = "failed"}

\* update(docs, key): search_keys resolved, the pool created and every
\* write_doc_to_s3 submitted to it
UpdateCall ==
    /\ call.op = "idle"
    /\ \E docs \in Batches, karg \in KeyArgs :
        call' = [op |-> "update", phase |-> "wait", docs |-> docs,
                 search_keys |-> SearchKeysOf(karg),
                 fs |-> [i \in 1..Len(docs) |-> "pending"],
                 search_docs |-> <<>>, index0 |-> index]
    /\ UNCHANGED <<config, env, s3_bucket, index, bucket>>

\* a bug: the pool starts a thread for every write submitted
WorkerStartUnbounded(i) ==
    /\ call.op = "update"
    /\ i \in DOMAIN call.fs
    /\ call.fs[i] = "pending"
    /\ call' = [call EXCEPT !.fs[i] = "running"]
    /\ UNCHANGED <<config, env, s3_bucket, index, bucket>>

\* a free worker of the pool takes the first write of its queue
WorkerStart(i) ==
    /\ call.op = "update"
    /\ i \in DOMAIN call.fs
    /\ call.fs[i] = "pending"
    /\ \A j \in 1..(i - 1) : call.fs[j] # "pending"
    /\ Cardinality(Running(call.fs)) < s3_workers
    /\ call' = [call EXCEPT !.fs[i] = "running"]
    /\ UNCHANGED <<config, env, s3_bucket, index, bucket>>

\* write_doc_to_s3 of document i puts its object
WriteDocOk(i) ==
    /\ call.op = "update"
    /\ i \in DOMAIN call.fs
    /\ call.fs[i] = "running"
    /\ Connected
    /\ bucket' = put_object(bucket, ObjectKey(call.docs[i][key].s),
                            BodyOf(call.docs[i]),
                            SearchDoc(call.docs[i], call.search_keys))
    /\ call' = [call EXCEPT !.fs[i] = "done"]
    /\ UNCHANGED <<config, env, s3_bucket, index>>

\* write_doc_to_s3 of document i raises: put_object fails in the backend, or
\* s3_bucket is None
WriteDocFail(i) ==
    /\ call.op = "update"
    /\ i \in DOMAIN call.fs
    /\ call.fs[i] = "running"
    /\ call' = [call EXCEPT !.fs[i] = "failed"]
    /\ UNCHANGED <<config, env, s3_bucket, index, bucket>>

\* a bug: wait(fs, return_when=FIRST_COMPLETED)
WaitFirstCompleted(c) ==
    c.phase = "wait" /\ \E i \in DOMAIN c.fs : c.fs[i] \in {"done", "failed"}
\* wait(fs): ALL_COMPLETED
WaitDone(c) == c.phase = "wait" /\ Completed(c.fs)

\* fs, _ = wait(fs); a result() raises the exception of its write
UpdateCollectRaise ==
    /\ call.op = "update"
    /\ WaitDone(call)
    /\ Failed(call.fs) # {}
    /\ call' = [call EXCEPT !.phase = "raised"]
    /\ UNCHANGED <<config, env, s3_bucket, index, bucket>>

\* fs, _ = wait(fs); search_docs collects the results, in the order of the
\* set of futures
UpdateCollect ==
    /\ call.op = "update"
    /\ WaitDone(call)
    /\ Failed(call.fs) = {}
    /\ \E p \in Permutations(1..Len(call.docs)) :
        call' = [call EXCEPT !.phase = "commit",
                    !.search_docs = [i \in 1..Len(call.docs) |->
                        SearchDoc(call.docs[p[i]], call.search_keys)]]
    /\ UNCHANGED <<config, env, s3_bucket, index, bucket>>

\* self.index.update(search_docs)
UpdateCommit ==
    /\ call.op = "update" /\ call.phase = "commit"
    /\ index' = IndexUpdate(index, call.search_docs)
    /\ call' = [call EXCEPT !.phase = "returned"]
    /\ UNCHANGED <<config, env, s3_bucket, bucket>>

\* -------------------------------------------------- S3Store.remove_docs
\* criteria of the caller: the key values they select
CriteriaArgs == SUBSET Keys \ {{}}

\* remove_docs(criteria, remove_s3_object)
RemoveDocsCall ==
    /\ call.op = "idle"
    /\ \E criteria \in CriteriaArgs, remove_s3_object \in BOOLEAN :
        call' = [op |-> "remove_docs", phase |-> "start", criteria |-> criteria,
                 remove_s3_object |-> remove_s3_object, to_remove |-> <<>>,
                 chunks |-> <<>>, requests |-> <<>>,
                 index0 |-> index, bucket0 |-> bucket]
    /\ UNCHANGED <<config, env, s3_bucket, index, bucket>>

\* a bug: the objects are removed whatever remove_s3_object says
WithObjectsAlways(c) == TRUE
\* the branch of "if not remove_s3_object"
WithObjects(c) == c.remove_s3_object

\* if not remove_s3_object: self.index.remove_docs(criteria=criteria)
RemoveIndexOnly ==
    /\ call.op = "remove_docs" /\ call.phase = "start"
    /\ ~WithObjects(call)
    /\ index' = IndexRemoveDocs(index, call.criteria)
    /\ call' = [call EXCEPT !.phase = "returned"]
    /\ UNCHANGED <<config, env, s3_bucket, bucket>>

\* to_remove = self.index.distinct(self.key, criteria=criteria)
RemoveDistinct ==
    /\ call.op = "remove_docs" /\ call.phase = "start"
    /\ WithObjects(call)
    /\ call' = [call EXCEPT !.phase = "index",
                   !.to_remove = IndexDistinct(index, key, call.criteria)]
    /\ UNCHANGED <<config, env, s3_bucket, index, bucket>>

\* self.index.remove_docs(criteria=criteria);
\* to_remove_chunks = list(grouper(to_remove, n=1000))
RemoveIndex ==
    /\ call.op = "remove_docs" /\ call.phase = "index"
    /\ index' = IndexRemoveDocs(index, call.criteria)
    /\ LET chunks == grouper(call.to_remove, ChunkSize)
       IN  call' = [call EXCEPT !.chunks = chunks,
                       !.phase = IF chunks = <<>> THEN "returned" ELSE "delete"]
    /\ UNCHANGED <<config, env, s3_bucket, bucket>>

\* a bug: the keys of the objects without the sub_dir prefix
ObjListNoPrefix(chunk) == {chunk[i] : i \in DOMAIN chunk}
\* objlist of a chunk: {"Key": self.sub_dir + obj}
ObjList(chunk) == {ObjectKey(chunk[i]) : i \in DOMAIN chunk}

\* self.s3_bucket.delete_objects(...) of the next chunk
RemoveChunk ==
    /\ call.op = "remove_docs" /\ call.phase = "delete"
    /\ Connected
    /\ bucket' = delete_objects(bucket, ObjList(Head(call.chunks)))
    /\ call' = [call EXCEPT !.chunks = Tail(call.chunks),
                   !.requests = Append(@, ObjList(Head(call.chunks))),
                   !.phase = IF Tail(call.chunks) = <<>> THEN "returned" ELSE "delete"]
    /\ UNCHANGED <<config, env, s3_bucket, index>>

\* delete_objects raises: the backend fails, or s3_bucket is None
RemoveChunkFail ==
    /\ call.op = "remove_docs" /\ call.phase = "delete"
    /\ call' = [call EXCEPT !.phase = "raised"]
    /\ UNCHANGED <<config, env, s3_bucket, index, bucket>>

\* ------------------------------------- S3Store.rebuild_index_from_s3_data
\* index_docs: file.metadata of every object of s3_bucket.objects.all()
IndexDocs(bkt) ==
    LET oks == ObjectsAll(bkt)
    IN  [i \in 1..Len(oks) |-> bkt[oks[i]].Metadata]

RebuildIndexCall ==
    /\ call.op = "idle"
    /\ Connected
    /\ index' = IndexUpdate(index, IndexDocs(bucket))
    /\ call' = [op |-> "rebuild_index_from_s3_data", phase |-> "returned",
                listed |-> ObjectsAll(bucket), index0 |-> index]
    /\ UNCHANGED <<config, env, s3_bucket, bucket>>

\* s3_bucket is None, or listing the bucket fails
RebuildIndexFail ==
    /\ call.op = "idle"
    /\ call' = [op |-> "rebuild_index_from_s3_data", phase |-> "raised"]
    /\ UNCHANGED <<config, env, s3_bucket, index, bucket>>

\* -------------------------------------------------------- S3Store.query
\* The properties argument of query(): None, a list or a dict.
PropertiesArgs ==
    {[none |-> TRUE],
     [list |-> <<key, "x">>],
     [dict |-> [f \in {last_updated_field} |-> 1]]}

IsNone(arg) == "none" \in DOMAIN arg
\* prop_keys: set(properties.keys()) of a dict, set(properties) of a list
PropKeys(properties) ==
    IF "dict" \in DOMAIN properties THEN DOMAIN properties.dict
    ELSE IF "list" \in DOMAIN properties THEN Range(properties.list)
    ELSE {}
\* a bug: "properties is not None" is not asked
FromIndexNoneToo(properties, doc) == PropKeys(properties) \subseteq DOMAIN doc
\* properties is not None and prop_keys.issubset(set(doc.keys()))
FromIndex(properties, doc) ==
    ~IsNone(properties) /\ PropKeys(properties) \subseteq DOMAIN doc
\* {p: doc[p] for p in properties if p in doc}
Project(properties, doc) ==
    [p \in PropKeys(properties) \cap DOMAIN doc |-> doc[p]]

\* a bug: no ClientError is taken for "not found"
ErrorCodeNever404(code) == 403
\* a bug: every ClientError is taken for "not found"
ErrorCodeAlways404(code) == 404
\* int(e.response["Error"]["Code"])
ErrorCodeInt(code) == IF code = "404" THEN 404 ELSE 403

\* a bug: the compression marker of the entry is not looked at
DecompressedNever(doc, data) == data
\* the bytes of the object after "if doc.get("compression", "") == "zlib""
Decompressed(doc, data) ==
    IF "compression" \in DOMAIN doc /\ doc["compression"] = Str("zlib")
    THEN zlib_decompress(data) ELSE data
\* what query() yields for the object's bytes (an error if one is raised)
Decoded(doc, data) ==
    IF IsError(Decompressed(doc, data)) THEN Decompressed(doc, data)
    ELSE unpackb(Decompressed(doc, data))

\* query(criteria, properties): the generator starts on self.index.query(...)
QueryCall ==
    /\ call.op = "idle"
    /\ \E criteria \in CriteriaArgs, properties \in PropertiesArgs :
        call' = [op |-> "query", phase |-> "iter", properties |-> properties,
                 cursor |-> IndexQuery(index, criteria), trace |-> <<>>,
                 error |-> "", cursor0 |-> IndexQuery(index, criteria)]
    /\ UNCHANGED <<config, env, s3_bucket, index, bucket>>

\* one step of the generator's loop, on entry doc
Step(how, got, code, out) ==
    [doc |-> Head(call.cursor), how |-> how, got |-> got, code |-> code, out |-> out]
QueryIter == call.op = "query" /\ call.phase = "iter" /\ call.cursor # <<>>

\* the index is exhausted: the generator ends
QueryEnd ==
    /\ call.op = "query" /\ call.phase = "iter" /\ call.cursor = <<>>
    /\ call' = [call EXCEPT !.phase = "returned"]
    /\ UNCHANGED <<config, env, s3_bucket, index, bucket>>

\* yield {p: doc[p] for p in properties if p in doc}
QueryYieldIndex ==
    /\ QueryIter
    /\ FromIndex(call.properties, Head(call.cursor))
    /\ call' = [call EXCEPT !.cursor = Tail(call.cursor),
                   !.trace = Append(call.trace,
                       Step("index", "", "", Project(call.properties, Head(call.cursor))))]
    /\ UNCHANGED <<config, env, s3_bucket, index, bucket>>

\* the Key query() gets for entry doc: self.sub_dir + doc[self.key]
GetKey(doc) == sub_dir \o doc[key].s

\* the object is fetched and decoded: yield msgpack.unpackb(data, ...)
QueryYieldBlob ==
    /\ QueryIter
    /\ ~FromIndex(call.properties, Head(call.cursor))
    /\ Connected
    /\ LET doc == Head(call.cursor)
       IN  /\ GetKey(doc) \in DOMAIN bucket
           /\ ~IsError(Decoded(doc, bucket[GetKey(doc)].Body))
           /\ call' = [call EXCEPT !.cursor = Tail(call.cursor),
                          !.trace = Append(call.trace,
                              Step("blob", GetKey(doc), "",
                                   Decoded(doc, bucket[GetKey(doc)].Body)))]
    /\ UNCHANGED <<config, env, s3_bucket, index, bucket>>

\* the object is fetched; zlib.decompress or msgpack.unpackb raises
QueryDecodeError ==
    /\ QueryIter
    /\ ~FromIndex(call.properties, Head(call.cursor))
    /\ Connected
    /\ LET doc == Head(call.cursor)
       IN  /\ GetKey(doc) \in DOMAIN bucket
           /\ IsError(Decoded(doc, bucket[GetKey(doc)].Body))
           /\ call' = [call EXCEPT !.phase = "raised",
                          !.error = Decoded(doc, bucket[GetKey(doc)].Body).error,
                          !.trace = Append(call.trace,
                              Step("raise", GetKey(doc), "", EmptyDict))]
    /\ UNCHANGED <<config, env, s3_bucket, index, bucket>>

\* .get() raises ClientError with code: 404 only when the object does not
\* exist, another code when the backend fails
QueryClientError(code) ==
    /\ QueryIter
    /\ ~FromIndex(call.properties, Head(call.cursor))
    /\ Connected
    /\ LET doc == Head(call.cursor)
       IN  /\ (code = "404") => (GetKey(doc) \notin DOMAIN bucket)
           /\ IF ErrorCodeInt(code) = 404
              THEN call' = [call EXCEPT !.phase = "returned",
                               !.trace = Append(call.trace,
                                   Step("break", GetKey(doc), code, EmptyDict))]
              ELSE call' = [call EXCEPT !.phase = "raised",
                               !.error = "ClientError " \o code,
                               !.trace = Append(call.trace,
                                   Step("raise", GetKey(doc), code, EmptyDict))]
    /\ UNCHANGED <<config, env, s3_bucket, index, bucket>>

\* ------------------- the operations S3Store passes on to the index Store
\* Store.count(criteria)
IndexCount(idx, criteria) == Cardinality(Matching(idx, criteria))
\* Store.groupby(keys, criteria), for the key field: each entry is a group
IndexGroupby(idx, field, criteria) ==
    LET q == IndexQuery(idx, criteria)
    IN  [i \in 1..Len(q) |-> <<q[i][field], <<q[i]>>>>]
\* Store.ensure_index(key, unique): the index exists or was created
IndexEnsureIndex(idx, field, unique) == TRUE
\* Store.last_updated: the largest last-updated value of the entries, or
\* datetime.min
IndexLastUpdated(idx) ==
    LET ms == {idx[k][last_updated_field].iso :
                  k \in {e \in DOMAIN idx : last_updated_field \in DOMAIN idx[e]}}
    IN  IF ms = {} THEN [min |-> TRUE]
        ELSE Dt(1000 * (CHOOSE m \in ms : \A o \in ms : o <= m))
\* Store.newer_in(target, criteria, exhaustive): the keys of target whose
\* last-updated value is later than this store's copy (exhaustive) or than
\* this store's last_updated
IndexNewerIn(idx, target, criteria, exhaustive) ==
    LET mine(k) == IF k \in DOMAIN idx /\ last_updated_field \in DOMAIN idx[k]
                   THEN 1000 * idx[k][last_updated_field].iso ELSE -1
        lu == IndexLastUpdated(idx)
        bound == IF IsDt(lu) THEN lu.us ELSE -1
    IN  {k \in Matching(target, criteria) :
            target[k].us > (IF exhaustive THEN mine(k) ELSE bound)}

\* the target argument of newer_in: a store's last-updated value by key
TargetArgs ==
    {[k \in Keys |-> IF k = "k1" THEN Dt(3000) ELSE Dt(1000)],
     [k \in {"k1"} |-> Dt(2500)]}
\* the calls of the operations and their arguments
MetadataCalls ==
    [op : {"count"}, criteria : CriteriaArgs]
    \cup [op : {"distinct"}, field : {key}, criteria : CriteriaArgs, all_exist : BOOLEAN]
    \cup [op : {"groupby"}, keys : {key}, criteria : CriteriaArgs]
    \cup [op : {"ensure_index"}, key : {key}, unique : BOOLEAN]
    \cup [op : {"last_updated"}]
    \cup [op : {"newer_in"}, target : TargetArgs, criteria : CriteriaArgs,
          exhaustive : BOOLEAN]

\* a bug: only the entries whose blob exists are counted
countOnlyWithBlob(criteria) ==
    Cardinality({k \in Matching(index, criteria) : ObjectKey(k) \in DOMAIN bucket})
\* S3Store.count
count(criteria) == IndexCount(index, criteria)
\* S3Store.distinct: all_exist is not passed on
distinct(field, criteria, all_exist) == IndexDistinct(index, field, criteria)
\* S3Store.groupby
groupby(keys, criteria) == IndexGroupby(index, keys, criteria)
\* S3Store.ensure_index
ensure_index(k, unique) == IndexEnsureIndex(index, k, unique)
\* S3Store.last_updated
last_updated == IndexLastUpdated(index)
\* S3Store.newer_in
newer_in(target, criteria, exhaustive) ==
    IndexNewerIn(index, target, criteria, exhaustive)

\* what the call c of one of these operations returns
MetadataResult(c) ==
    CASE c.op = "count" -> count(c.criteria)
      [] c.op = "distinct" -> distinct(c.field, c.criteria, c.all_exist)
      [] c.op = "groupby" -> groupby(c.keys, c.criteria)
      [] c.op = "ensure_index" -> ensure_index(c.key, c.unique)
      [] c.op = "last_updated" -> last_updated
      [] c.op = "newer_in" -> newer_in(c.target, c.criteria, c.exhaustive)

\* a call of count, distinct, groupby, ensure_index, last_updated or newer_in
MetadataCall ==
    /\ call.op = "idle"
    /\ index_open
    /\ \E c \in MetadataCalls :
        call' = [op |-> c.op, phase |-> "returned", args |-> c,
                 result |-> MetadataResult(c), bucket0 |-> bucket]
    /\ UNCHANGED <<config, env, s3_bucket, index, bucket>>

Next ==
    \/ Connect
    \/ Return
    \/ UpdateCall
    \/ \E i \in 1..(MaxBatch + 1) : WorkerStart(i)
    \/ \E i \in 1..(MaxBatch + 1) : WriteDocOk(i)
    \/ \E i \in 1..(MaxBatch + 1) : WriteDocFail(i)
    \/ UpdateCollectRaise
    \/ UpdateCollect
    \/ UpdateCommit
    \/ RemoveDocsCall
    \/ RemoveIndexOnly
    \/ RemoveDistinct
    \/ RemoveIndex
    \/ RemoveChunk
    \/ RemoveChunkFail
    \/ RebuildIndexCall
    \/ RebuildIndexFail
    \/ QueryCall
    \/ QueryEnd
    \/ QueryYieldIndex
    \/ QueryYieldBlob
    \/ QueryDecodeError
    \/ \E code \in ErrorCodes : QueryClientError(code)
    \/ MetadataCall

Spec == Init /\ [][Next]_vars

\* ------------------------------------- remove_docs() on a large index
\* The store after update() has written DocOf(k, 1), with the key argument
\* None, for the first n keys of BulkOrder and for "k1".
BulkSizes == {0, 1, ChunkSize - 1, ChunkSize, ChunkSize + 1, 2 * ChunkSize, MaxBulk}
BulkKeys(n) == {BulkOrder[i] : i \in 1..n}
BulkIndex(n) == [k \in BulkKeys(n) \cup {"k1"} |-> SearchDoc(DocOf(k, 1), <<key>>)]
\* the object keys of BulkOrder under each sub_dir (SubSeq makes each a
\* tuple that is computed once)
BulkObjectOrder ==
    [p \in {SubDirOf(a) : a \in SubDirArgs} |->
        SubSeq([i \in 1..MaxBulk |-> p \o BulkOrder[i]], 1, MaxBulk)]
BulkBucket(n) ==
    [ok \in {BulkObjectOrder[sub_dir][i] : i \in 1..n} \cup {ObjectKey("k1")} |->
        LET k == IF ok = ObjectKey("k1") THEN "k1"
                 ELSE BulkOrder[CHOOSE i \in 1..n : BulkObjectOrder[sub_dir][i] = ok]
        IN  [Body |-> BodyOf(DocOf(k, 1)),
             Metadata |-> SearchDoc(DocOf(k, 1), <<key>>)]]

BulkInit ==
    /\ \E a \in SubDirArgs : sub_dir = SubDirOf(a)
    /\ compress = FALSE
    /\ s3_workers = 1
    /\ s3_bucket = "Bucket"
    /\ s3 = "resource"
    /\ index_open = TRUE
    /\ buckets = {BucketArg}
    /\ sigalrm = NoAlarm
    /\ call = Idle
    /\ peer = Idle
    /\ \E n \in BulkSizes : index = BulkIndex(n) /\ bucket = BulkBucket(n)

\* remove_docs(criteria, remove_s3_object) with criteria that select the keys
\* of BulkOrder
BulkRemoveDocsCall ==
    /\ call.op = "idle"
    /\ \E remove_s3_object \in BOOLEAN :
        call' = [op |-> "remove_docs", phase |-> "start", criteria |-> BulkKeys(MaxBulk),
                 remove_s3_object |-> remove_s3_object, to_remove |-> <<>>,
                 chunks |-> <<>>, requests |-> <<>>,
                 index0 |-> index, bucket0 |-> bucket]
    /\ UNCHANGED <<config, env, s3_bucket, index, bucket>>

BulkNext ==
    \/ BulkRemoveDocsCall
    \/ RemoveIndexOnly
    \/ RemoveDistinct
    \/ RemoveIndex
    \/ RemoveChunk
    \/ RemoveChunkFail
    \/ Return

BulkSpec == BulkInit /\ [][BulkNext]_vars

\* ------------------------------------------ connect() and close(), repeated
\* another party creates or deletes the bucket on the service
CreateBucket ==
    /\ BucketArg \notin buckets
    /\ buckets' = buckets \cup {BucketArg}
    /\ UNCHANGED <<config, s3_bucket, index, bucket, call, s3, index_open, sigalrm, peer>>
DeleteBucket ==
    /\ BucketArg \in buckets
    /\ buckets' = buckets \ {BucketArg}
    /\ UNCHANGED <<config, s3_bucket, index, bucket, call, s3, index_open, sigalrm, peer>>

\* a store just constructed, on a service where the bucket exists or not
LifeInit ==
    /\ \E a \in SubDirArgs : sub_dir = SubDirOf(a)
    /\ compress \in BOOLEAN
    /\ s3_workers \in WorkersArgs
    /\ s3_bucket = "None"
    /\ s3 = "None"
    /\ index_open = FALSE
    /\ buckets \in {{}, {BucketArg}}
    /\ sigalrm = NoAlarm
    /\ index = EmptyDict
    /\ bucket = EmptyDict
    /\ call = Idle
    /\ peer = Idle

LifeNext ==
    \/ Connect
    \/ Close
    \/ Return
    \/ CreateBucket
    \/ DeleteBucket

LifeSpec == LifeInit /\ [][LifeNext]_vars

\* ------------------------------------------------------- S3Store.__eq__
\* The objects compared: S3Stores, by the attributes __init__ sets and the
\* connection state, and objects of other classes.  An index store is its
\* identity, which its own __eq__ compares.
IndexStores == {[cls |-> "MemoryStore", name |-> "index1"],
                [cls |-> "MemoryStore", name |-> "index2"]}
S3Stores ==
    [cls : {"S3Store"}, index : IndexStores, bucket : {BucketArg, "bucket2"},
     last_updated_field : {last_updated_field, "updated_on"},
     sub_dir : {""}, s3_bucket : {"None", "Bucket"}]
    \cup [cls : {"S3Store"}, index : {[cls |-> "MemoryStore", name |-> "index1"]},
          bucket : {BucketArg}, last_updated_field : {last_updated_field},
          sub_dir : {"sub/"}, s3_bucket : {"None"}]
Objects == S3Stores \cup IndexStores \cup {[cls |-> "str", bucket |-> BucketArg]}

\* a bug: last_updated_field is not compared
S3Store_eq_TwoFields(self, other) ==
    IF other.cls # "S3Store" THEN FALSE
    ELSE \A f \in {"index", "bucket"} : self[f] = other[f]
\* S3Store.__eq__(self, other): False unless isinstance(other, S3Store)
S3Store_eq(self, other) ==
    IF other.cls # "S3Store" THEN FALSE
    ELSE \A f \in {"index", "bucket", "last_updated_field"} : self[f] = other[f]

\* a store just constructed, for the operations that do not use its state
FreshInit ==
    /\ sub_dir = ""
    /\ compress = FALSE
    /\ s3_workers = 1
    /\ s3_bucket = "None"
    /\ s3 = "None"
    /\ index_open = FALSE
    /\ buckets = {BucketArg}
    /\ sigalrm = NoAlarm
    /\ index = EmptyDict
    /\ bucket = EmptyDict
    /\ call = Idle
    /\ peer = Idle

\* self == other
EqCall ==
    /\ call.op = "idle"
    /\ \E self \in S3Stores, other \in Objects :
        call' = [op |-> "__eq__", phase |-> "returned", self |-> self,
                 other |-> other, result |-> S3Store_eq(self, other)]
    /\ UNCHANGED <<config, env, s3_bucket, index, bucket>>

\* S3Store.__hash__(self): hash((self.index.__hash__, self.bucket)).  The
\* first element is a bound method, which hashes by the identity of the
\* object it is bound to (index_id, the index store instance) and by its
\* function; a hash is given as the values that determine it.
S3Store_hash(self, index_id) ==
    [im_self |-> index_id, im_func |-> self.index.cls \o ".__hash__",
     bucket |-> self.bucket]

\* hash(self) and hash(other), of two stores whose index stores are the
\* instances ids[1] and ids[2]: one instance when the ids are equal, and then
\* of one value
HashCall ==
    /\ call.op = "idle"
    /\ \E self \in S3Stores, other \in S3Stores, ids \in {1, 2} \X {1, 2} :
        /\ ids[1] = ids[2] => self.index = other.index
        /\ call' = [op |-> "__hash__", phase |-> "returned", self |-> self,
                    other |-> other, ids |-> ids,
                    result |-> <<S3Store_hash(self, ids[1]), S3Store_hash(other, ids[2])>>]
    /\ UNCHANGED <<config, env, s3_bucket, index, bucket>>

EqNext ==
    \/ EqCall
    \/ HashCall
    \/ Return

EqSpec == FreshInit /\ [][EqNext]_vars

\* ------------------------------------ S3Store.rebuild_metadata_from_index
\* str(k).lower() of a field name: "X" is the one name with a capital
Lower(f) == IF f = "X" THEN "x" ELSE f
\* new_meta before the pop: the object's metadata with lower-cased keys,
\* then every field of index_doc under its lower-cased name
NewMeta(index_doc, metadata) ==
    LET old == [f \in {Lower(g) : g \in DOMAIN metadata} |->
                   metadata[CHOOSE g \in DOMAIN metadata : Lower(g) = f]]
        new == [f \in {Lower(g) : g \in DOMAIN index_doc} |->
                   index_doc[CHOOSE g \in DOMAIN index_doc : Lower(g) = f]]
    IN  [f \in DOMAIN old \cup DOMAIN new |-> IF f \in DOMAIN new THEN new[f] ELSE old[f]]
\* s3_object.copy_from(CopySource=the object itself, Metadata=new_meta,
\* MetadataDirective="REPLACE")
copy_from(bkt, okey, new_meta) == SetItem(bkt, okey, [bkt[okey] EXCEPT !.Metadata = new_meta])

\* The stores the operation is run on: update() wrote DocOf(k, 1) for the
\* keys W; since then the index entries were changed (another version, the
\* field "x" renamed "X"), the index store may keep its "_id" in the entries,
\* the objects' metadata may carry one, and the object of k2 may be gone.
MetaEntry(k, search_keys, ver, upper, entry_id) ==
    LET e0 == SearchDoc(DocOf(k, ver), search_keys)
        e1 == IF upper THEN SetItem(IF "x" \in DOMAIN e0 THEN DelItem(e0, "x") ELSE e0,
                                    "X", Str("c"))
              ELSE e0
    IN  IF entry_id THEN SetItem(e1, "_id", [oid |-> k]) ELSE e1
MetaObject(k, search_keys, metadata_id) ==
    LET m0 == SearchDoc(DocOf(k, 1), search_keys)
    IN  [Body |-> BodyOf(DocOf(k, 1)),
         Metadata |-> IF metadata_id THEN SetItem(m0, "_id", [oid |-> k]) ELSE m0]

MetaInit ==
    /\ \E a \in SubDirArgs : sub_dir = SubDirOf(a)
    /\ compress = FALSE
    /\ s3_workers = 1
    /\ s3_bucket = "Bucket"
    /\ s3 = "resource"
    /\ index_open = TRUE
    /\ buckets = {BucketArg}
    /\ sigalrm = NoAlarm
    /\ call = Idle
    /\ peer = Idle
    /\ \E W \in SUBSET Keys \ {{}}, karg \in KeyArgs, ver \in Versions,
          upper \in BOOLEAN, entry_id \in BOOLEAN, metadata_id \in BOOLEAN,
          gone \in SUBSET {"k2"} :
        /\ index = [k \in W |-> MetaEntry(k, SearchKeysOf(karg), ver, upper, entry_id)]
        /\ bucket = [ok \in {ObjectKey(k) : k \in W \ gone} |->
                        MetaObject(CHOOSE k \in W : ObjectKey(k) = ok,
                                   SearchKeysOf(karg), metadata_id)]

\* rebuild_metadata_from_index(index_query)
RebuildMetadataCall ==
    /\ call.op = "idle"
    /\ \E criteria \in CriteriaArgs :
        LET cursor == IndexQuery(index, criteria)
        IN  call' = [op |-> "rebuild_metadata_from_index",
                     phase |-> IF cursor = <<>> THEN "returned" ELSE "loop",
                     criteria |-> criteria, cursor |-> cursor, copied |-> {},
                     error |-> "", index0 |-> index, bucket0 |-> bucket]
    /\ UNCHANGED <<config, env, s3_bucket, index, bucket>>

\* key_ = self.sub_dir + index_doc[self.key]
MetaKey == ObjectKey(Head(call.cursor)[key].s)

\* one iteration: new_meta is built, "_id" popped, the object copied onto itself
MetaCopy ==
    /\ call.op = "rebuild_metadata_from_index" /\ call.phase = "loop"
    /\ MetaKey \in DOMAIN bucket
    /\ LET new_meta == NewMeta(Head(call.cursor), bucket[MetaKey].Metadata)
       IN  /\ "_id" \in DOMAIN new_meta
           /\ bucket' = copy_from(bucket, MetaKey, DelItem(new_meta, "_id"))
    /\ call' = [call EXCEPT !.cursor = Tail(@), !.copied = @ \cup {MetaKey},
                   !.phase = IF Tail(call.cursor) = <<>> THEN "returned" ELSE "loop"]
    /\ UNCHANGED <<config, env, s3_bucket, index>>

\* new_meta.pop("_id") with no "_id" in new_meta
MetaKeyError ==
    /\ call.op = "rebuild_metadata_from_index" /\ call.phase = "loop"
    /\ MetaKey \in DOMAIN bucket
    /\ "_id" \notin DOMAIN NewMeta(Head(call.cursor), bucket[MetaKey].Metadata)
    /\ call' = [call EXCEPT !.phase = "raised", !.error = "KeyError"]
    /\ UNCHANGED <<config, env, s3_bucket, index, bucket>>

\* s3_object.metadata or copy_from raises: the object does not exist, or the
\* backend fails
MetaClientError ==
    /\ call.op = "rebuild_metadata_from_index" /\ call.phase = "loop"
    /\ call' = [call EXCEPT !.phase = "raised", !.error = "ClientError"]
    /\ UNCHANGED <<config, env, s3_bucket, index, bucket>>

MetaNext ==
    \/ RebuildMetadataCall
    \/ MetaCopy
    \/ MetaKeyError
    \/ MetaClientError
    \/ Return

MetaSpec == MetaInit /\ [][MetaNext]_vars

\* --------------------------- dt_to_isoformat_ceil_ms and isostr_to_dt
\* %f of strptime: the n digits after the point are the leading digits of
\* the six of the microseconds
StrptimeFraction(digits, n) == digits * 10 ^ (6 - n)
\* isostr_to_dt(s): the format with %f for a string with a fraction (an Iso
\* string has three digits), after its ValueError the format without for a
\* string of whole seconds, [isosec |-> seconds]
isostr_to_dt(s) ==
    IF "iso" \in DOMAIN s
    THEN Dt((s.iso \div 1000) * 1000000 + StrptimeFraction(s.iso % 1000, 3))
    ELSE Dt(s.isosec * 1000000)

\* timestamps in microseconds: at, just after, in the middle of and just
\* before the end of a millisecond, around the turn of a second and a minute
Times == {1000 * ms + off : ms \in {0, 1, 999, 1000, 59999}, off \in {0, 1, 500, 999}}

\* dt_to_isoformat_ceil_ms(t) of two timestamps
NormalizeCall ==
    /\ call.op = "idle"
    /\ \E t1, t2 \in Times :
        call' = [op |-> "dt_to_isoformat_ceil_ms", phase |-> "returned",
                 t1 |-> Dt(t1), t2 |-> Dt(t2),
                 s1 |-> dt_to_isoformat_ceil_ms(Dt(t1)),
                 s2 |-> dt_to_isoformat_ceil_ms(Dt(t2))]
    /\ UNCHANGED <<config, env, s3_bucket, index, bucket>>

\* isostr_to_dt of the string just produced
ParseNormalized ==
    /\ call.op = "dt_to_isoformat_ceil_ms"
    /\ call' = [op |-> "isostr_to_dt", phase |-> "returned", t |-> call.t1,
                s |-> call.s1, dt |-> isostr_to_dt(call.s1)]
    /\ UNCHANGED <<config, env, s3_bucket, index, bucket>>

\* isostr_to_dt of a string of whole seconds
ParseSeconds ==
    /\ call.op = "idle"
    /\ \E s \in {[isosec |-> sec] : sec \in {0, 1, 59, 60}} :
        call' = [op |-> "isostr_to_dt", phase |-> "returned", t |-> Dt(0),
                 s |-> s, dt |-> isostr_to_dt(s)]
    /\ UNCHANGED <<config, env, s3_bucket, index, bucket>>

TimeNext ==
    \/ NormalizeCall
    \/ ParseNormalized
    \/ ParseSeconds
    \/ Return

TimeSpec == FreshInit /\ [][TimeNext]_vars

\* ------------------------------------------------------------- Timeout
\* The seconds argument: None or an int, as documented.
SecondsArgs == {[none |-> TRUE]} \cup {[int |-> n] : n \in 0..MaxSeconds}
\* the truth value of seconds
Truthy(seconds) == "int" \in DOMAIN seconds /\ seconds.int # 0
\* Timeout.__init__: self.seconds = int(seconds) if seconds else None
SecondsOf(seconds) == IF Truthy(seconds) THEN [int |-> seconds.int] ELSE [none |-> TRUE]
\* signal.alarm(n): the pending alarm is replaced, n = 0 cancels it
signal_alarm(sa, n) == [sa EXCEPT !.alarm = n]
\* Timeout.__enter__
TimeoutEnter(sa, seconds) ==
    IF Truthy(seconds)
    THEN signal_alarm([sa EXCEPT !.handler = "handle_timeout"], seconds.int)
    ELSE sa
\* a bug: the alarm is left armed on exit
TimeoutExitArmed(sa, seconds) == sa
\* Timeout.__exit__
TimeoutExit(sa, seconds) == IF Truthy(seconds) THEN signal_alarm(sa, 0) ELSE sa
\* one second passes: a pending alarm comes a second closer
Elapse(sa) == IF sa.alarm > 0 THEN [sa EXCEPT !.alarm = @ - 1] ELSE sa
\* SIGALRM is delivered to Timeout.handle_timeout after this second
Fires(sa) == sa.alarm = 1 /\ sa.handler = "handle_timeout"

\* a process that may have an alarm of its own pending, with its own handler
TimeoutInit ==
    /\ FreshInit
    /\ sigalrm \in {NoAlarm, [alarm |-> MaxSeconds, handler |-> "other"]}

\* with Timeout(seconds): a body that needs work seconds and then ends,
\* normally or by raising
TimeoutCall ==
    /\ call.op = "idle"
    /\ \E seconds \in SecondsArgs, work \in 0..(MaxSeconds + 1), raises \in BOOLEAN :
        /\ call' = [op |-> "Timeout", phase |-> "body", N |-> seconds,
                    seconds |-> SecondsOf(seconds), work |-> work, raises |-> raises,
                    elapsed |-> 0, after |-> 0, error |-> "", late |-> FALSE,
                    before |-> sigalrm]
        /\ sigalrm' = TimeoutEnter(sigalrm, SecondsOf(seconds))
    /\ UNCHANGED <<config, s3_bucket, index, bucket, s3, index_open, buckets, peer>>

\* a second passes in the body and no alarm of the scope goes off
BodyTick ==
    /\ call.op = "Timeout" /\ call.phase = "body"
    /\ call.elapsed < call.work
    /\ ~Fires(sigalrm)
    /\ sigalrm' = Elapse(sigalrm)
    /\ call' = [call EXCEPT !.elapsed = @ + 1]
    /\ UNCHANGED <<config, s3_bucket, index, bucket, s3, index_open, buckets, peer>>

\* the alarm goes off in the body: handle_timeout raises TimeoutError, which
\* leaves the scope through __exit__
BodyTimeout ==
    /\ call.op = "Timeout" /\ call.phase = "body"
    /\ call.elapsed < call.work
    /\ Fires(sigalrm)
    /\ sigalrm' = TimeoutExit(Elapse(sigalrm), call.seconds)
    /\ call' = [call EXCEPT !.elapsed = @ + 1, !.phase = "raised",
                   !.error = "TimeoutError"]
    /\ UNCHANGED <<config, s3_bucket, index, bucket, s3, index_open, buckets, peer>>

\* the body ends, normally or by raising: __exit__
BodyEnds ==
    /\ call.op = "Timeout" /\ call.phase = "body"
    /\ call.elapsed = call.work
    /\ sigalrm' = TimeoutExit(sigalrm, call.seconds)
    /\ call' = [call EXCEPT !.phase = IF call.raises THEN "raised" ELSE "returned",
                   !.error = IF call.raises THEN "BodyError" ELSE ""]
    /\ UNCHANGED <<config, s3_bucket, index, bucket, s3, index_open, buckets, peer>>

\* a second passes after the scope was left; an alarm still armed with
\* handle_timeout would raise TimeoutError outside the scope
AfterTick ==
    /\ call.op = "Timeout" /\ call.phase \in {"returned", "raised"}
    /\ call.after <= MaxSeconds
    /\ sigalrm' = Elapse(sigalrm)
    /\ call' = [call EXCEPT !.after = @ + 1, !.late = @ \/ Fires(sigalrm)]
    /\ UNCHANGED <<config, s3_bucket, index, bucket, s3, index_open, buckets, peer>>

TimeoutNext ==
    \/ TimeoutCall
    \/ BodyTick
    \/ BodyTimeout
    \/ BodyEnds
    \/ AfterTick
    \/ Return

TimeoutSpec == TimeoutInit /\ [][TimeoutNext]_vars

\* --------------------------------------------- pydash, as substitute uses it
\* A nested dict is a dict whose values are strings or nested dicts.
IsDict(v) == "s" \notin DOMAIN v

\* to_path(key): the names of a dotted key
to_path(k) ==
    CASE k = "a" -> <<"a">>
      [] k = "a.b" -> <<"a", "b">>
      [] k = "a.b.c" -> <<"a", "b", "c">>
      [] k = "u" -> <<"u">>
      [] k = "x" -> <<"x">>
      [] k = "y.z" -> <<"y", "z">>

\* has(d, path): every name of the path is a key of the dict reached so far
RECURSIVE has(_, _)
has(d, path) ==
    \/ path = <<>>
    \/ /\ IsDict(d)
       /\ Head(path) \in DOMAIN d
       /\ has(d[Head(path)], Tail(path))

\* get(d, path): the value at the path, None where the path leaves d
RECURSIVE get(_, _)
get(d, path) ==
    IF path = <<>> THEN d
    ELSE IF IsDict(d) /\ Head(path) \in DOMAIN d THEN get(d[Head(path)], Tail(path))
    ELSE [none |-> TRUE]

\* set_(d, path, value): the dicts on the way are made where they are missing
RECURSIVE set_(_, _, _)
set_(d, path, value) ==
    IF Len(path) = 1 THEN SetItem(d, Head(path), value)
    ELSE SetItem(d, Head(path),
                 set_(IF Head(path) \in DOMAIN d THEN d[Head(path)] ELSE EmptyDict,
                      Tail(path), value))

\* pydash's unset(d, path): pops the last name from the dict at its parent
\* path, and does nothing where the path is absent
RECURSIVE pydash_unset(_, _)
pydash_unset(d, path) ==
    IF ~has(d, path) THEN d
    ELSE IF Len(path) = 1 THEN DelItem(d, Head(path))
    ELSE SetItem(d, Head(path), pydash_unset(d[Head(path)], Tail(path)))

\* ---------------------------------------------- unset and substitute
\* d is changed in place: a result is the dict as it is left and whether the
\* call raised.
RECURSIVE unset(_, _)
RECURSIVE unsetParents(_, _, _)
\* the loop of unset, for i in reversed(range(1, len(path))), from i down:
\* len() of the None that get() gives for a missing parent is a TypeError
unsetParents(r, path, i) ==
    IF i < 1 \/ r.raised THEN r
    ELSE LET parent == get(r.d, SubSeq(path, 1, i))
         IN  IF IsNone(parent) THEN [d |-> r.d, raised |-> TRUE]
             ELSE IF IsDict(parent) /\ DOMAIN parent = {}
             THEN unsetParents(unset(r.d, SubSeq(path, 1, i)), path, i - 1)
             ELSE unsetParents(r, path, i - 1)
\* unset(d, key), key given as its path
unset(d, path) ==
    unsetParents([d |-> pydash_unset(d, path), raised |-> FALSE], path, Len(path) - 1)

\* substitute(d, aliases): the aliases in the order of the dict
RECURSIVE substitute(_, _)
substitute(d, aliases) ==
    IF aliases = <<>> THEN [d |-> d, raised |-> FALSE]
    ELSE LET alias == Head(aliases)[1]
             k == Head(aliases)[2]
         IN  IF has(d, to_path(k))
             THEN LET r == unset(set_(d, to_path(alias), get(d, to_path(k))), to_path(k))
                  IN  IF r.raised THEN r ELSE substitute(r.d, Tail(aliases))
             ELSE substitute(d, Tail(aliases))

\* --------------------------------------------- grouper and substitute
\* list(grouper(iterable, n)): the lists of up to MaxLen elements, n from 1
\* to more than the longest list
GrouperCall ==
    /\ call.op = "idle"
    /\ \E iterable \in UNION {[1..len -> {"A", "B"}] : len \in 0..MaxLen},
          n \in 1..(MaxLen + 1) :
        call' = [op |-> "grouper", phase |-> "returned", iterable |-> iterable,
                 n |-> n, result |-> grouper(iterable, n)]
    /\ UNCHANGED <<config, env, s3_bucket, index, bucket>>

\* substitute(d, aliases).  The dicts have "a" and "u" at the top, "b" and
\* "v" in "a", "c" and "w" in "a.b", and "a" and "a.b" may also be strings;
\* aliases holds one alias, or one alias of a path under "a" and one of "u",
\* in either order.
SubstituteCall ==
    LET Under(names, deep, inner) ==
            UNION {{f \in [S -> {Str("1")} \cup inner] :
                        \A n \in S : n # deep => f[n] = Str("1")} : S \in SUBSET names}
        NestedDicts ==
            Under({"a", "u"}, "a", Under({"b", "v"}, "b", Under({"c", "w"}, "c", {})))
        UnderA == {"a", "a.b", "a.b.c"}
        Names == {<<"x", "y.z">>, <<"y.z", "x">>}
        AliasArgs ==
            {<<<<n, k>>>> : n \in {"x", "y.z"}, k \in UnderA \cup {"u"}}
            \cup {<<<<nm[1], k>>, <<nm[2], "u">>>> : nm \in Names, k \in UnderA}
            \cup {<<<<nm[1], "u">>, <<nm[2], k>>>> : nm \in Names, k \in UnderA}
    IN  /\ call.op = "idle"
        /\ \E d \in NestedDicts, aliases \in AliasArgs :
            LET r == substitute(d, aliases)
            IN  call' = [op |-> "substitute",
                         phase |-> IF r.raised THEN "raised" ELSE "returned",
                         d0 |-> d, aliases |-> aliases, d |-> r.d]
        /\ UNCHANGED <<config, env, s3_bucket, index, bucket>>

UtilNext ==
    \/ GrouperCall
    \/ SubstituteCall
    \/ Return

UtilSpec == FreshInit /\ [][UtilNext]_vars

\* ------------------------------------- two callers on one store, in threads
\* The store after update() has written DocOf("k1", 1), with the key argument
\* None; nobody is calling.
ConcInit ==
    /\ sub_dir = ""
    /\ compress = FALSE
    /\ s3_workers = 1
    /\ s3_bucket = "Bucket"
    /\ s3 = "resource"
    /\ index_open = TRUE
    /\ buckets = {BucketArg}
    /\ sigalrm = NoAlarm
    /\ call = Idle
    /\ peer = Idle
    /\ index = BulkIndex(0)
    /\ bucket = BulkBucket(0)

\* the interpreter switches threads: the running call is held where it is and
\* the other caller's continues; S3Store takes no lock in any method
Switch ==
    /\ call.op # "idle" \/ peer.op # "idle"
    /\ call' = peer
    /\ peer' = call
    /\ UNCHANGED <<config, s3_bucket, index, bucket, s3, index_open, buckets, sigalrm>>

\* one caller in update() of one document, key=None, and one in
\* remove_docs(criteria, remove_s3_object=True), each step of either between any two steps of the
\* other
ConcNext ==
    \/ peer.op # "update" /\ UpdateCall /\ Len(call'.docs) = 1 /\ call'.search_keys = <<key>>
    \/ \E i \in 1..(MaxBatch + 1) : WorkerStart(i)
    \/ \E i \in 1..(MaxBatch + 1) : WriteDocOk(i)
    \/ \E i \in 1..(MaxBatch + 1) : WriteDocFail(i)
    \/ UpdateCollectRaise
    \/ UpdateCollect
    \/ UpdateCommit
    \/ peer.op # "remove_docs" /\ RemoveDocsCall /\ call'.remove_s3_object
    \/ RemoveDistinct
    \/ RemoveIndex
    \/ RemoveChunk
    \/ RemoveChunkFail
    \/ Switch
    \/ Return

ConcSpec == ConcInit /\ [][ConcNext]_vars

\* ------------------------------------------------------------- the claims
InUpdate == call.op = "update"
BatchKeys == {call.docs[i][key].s : i \in DOMAIN call.docs}

\* C1: in an update() call the index store's update is invoked only after
\* every blob write of the batch has completed or failed: while a write of
\* the batch is pending or in flight, update() is still at its wait and the
\* index is as it was when the call began.
C1_IndexAfterWrites ==
    InUpdate =>
        ((\E i \in DOMAIN call.fs : call.fs[i] \in {"pending", "running"})
            => (call.phase = "wait" /\ index = call.index0))

\* an update() of two documents has committed its entries to the index
C1_Witness ==
    /\ InUpdate /\ call.phase = "returned"
    /\ Len(call.docs) = 2
    /\ index # call.index0
    /\ \A i \in DOMAIN call.fs : call.fs[i] = "done"

\* C2: if a blob write of an update() batch fails, update() fails (it never
\* goes on to the index commit nor returns normally) and the index store
\* receives no entry of the batch, so the index is left as it was.
C2_FailedWriteFailsBatch ==
    (InUpdate /\ \E i \in DOMAIN call.fs : call.fs[i] = "failed")
        => (call.phase \in {"wait", "raised"} /\ index = call.index0)

\* an update() of two documents has raised: one write failed after the other
\* had put its object
C2_Witness ==
    /\ InUpdate /\ call.phase = "raised"
    /\ \E i, j \in DOMAIN call.fs : call.fs[i] = "failed" /\ call.fs[j] = "done"
    /\ bucket # EmptyDict

\* C3 (invariant I1): every index entry present has a blob object at key
\* sub_dir + key value, in every state reachable by update(), remove_docs()
\* and rebuild_index_from_s3_data() of one store instance.
C3_EveryEntryHasBlob ==
    \A k \in DOMAIN index : ObjectKey(k) \in DOMAIN bucket

\* the objects of the bucket that are under the store's sub_dir
OwnObjects == {ObjectKey(k) : k \in Keys}
\* I1 for a bucket that holds no object outside the store's sub_dir
C3_ExclusiveBucket ==
    (DOMAIN bucket \subseteq OwnObjects) => C3_EveryEntryHasBlob

InRemove == call.op = "remove_docs"
\* the key values a remove_docs() call selects: entries present when it began
Selected == DOMAIN call.index0 \cap call.criteria

\* C4: after update([D]) returns successfully an index entry and a blob
\* object exist for D's key; after a remove_docs(criteria,
\* remove_s3_object=True) whose criteria match D returns, neither the index
\* entry nor the blob object of D's key exists (with and without sub_dir).
C4_UpdateThenHardDelete ==
    /\ (InUpdate /\ call.phase = "returned") =>
            \A k \in BatchKeys : k \in DOMAIN index /\ (sub_dir \o k) \in DOMAIN bucket
    /\ (InRemove /\ call.phase = "returned" /\ call.remove_s3_object) =>
            \A k \in Selected : k \notin DOMAIN index /\ (sub_dir \o k) \notin DOMAIN bucket

\* a hard delete has returned, on a store with a sub_dir, for an entry that
\* had its blob
C4_Witness ==
    /\ InRemove /\ call.phase = "returned" /\ call.remove_s3_object
    /\ sub_dir # ""
    /\ \E k \in Selected : (sub_dir \o k) \in DOMAIN call.bucket0

InQuery == call.op = "query"
\* the document whose serialization the bytes are, as update() writes them
WrittenAs(body) == {D \in Docs : body = BodyOf(D)}

\* C5 (round trip): a document D written by update() and read by query()
\* with properties=None comes back equal to D, compression on or off, with
\* or without sub_dir: the document query() yields from a blob is the
\* document update() serialized into it, and an entry and a blob of one write
\* always decode to that document, without the bookkeeping fields.
C5_RoundTrip ==
    /\ \A k \in DOMAIN index :
          ((sub_dir \o k) \in DOMAIN bucket
             /\ bucket[sub_dir \o k].Metadata = index[k]) =>
                \A D \in WrittenAs(bucket[sub_dir \o k].Body) :
                    Decoded(index[k], bucket[sub_dir \o k].Body) = D
    /\ (InQuery /\ IsNone(call.properties)) =>
          \A i \in DOMAIN call.trace :
              call.trace[i].how = "blob" =>
                  \A D \in WrittenAs(bucket[call.trace[i].got].Body) :
                      call.trace[i].out = D

\* query() with properties=None has yielded a document with a datetime from a
\* compressed blob under a sub_dir
C5_Witness ==
    /\ InQuery /\ IsNone(call.properties)
    /\ compress /\ sub_dir # ""
    /\ \E i \in DOMAIN call.trace :
          /\ call.trace[i].how = "blob"
          /\ call.trace[i].out \in Docs
          /\ call.trace[i].out[last_updated_field] = Dt(2500)
          /\ "compression" \in DOMAIN call.trace[i].doc

\* the entries query() has gone through are the first entries of the index
\* query, in order, and every one before the last was yielded
TraceIsPrefix ==
    /\ Len(call.trace) <= Len(call.cursor0)
    /\ \A i \in DOMAIN call.trace : call.trace[i].doc = call.cursor0[i]
    /\ \A i \in DOMAIN call.trace :
          i < Len(call.trace) => call.trace[i].how \in {"index", "blob"}

FullDoc(doc) == Decoded(doc, bucket[sub_dir \o doc[key].s].Body)

\* C8: whenever query() returns a result for an index entry without fetching
\* its blob, the value of every requested property equals the value of that
\* property in the full document stored in the blob of the same key.
C8_ShortcutEqualsDocument ==
    InQuery =>
        \A i \in DOMAIN call.trace :
            (call.trace[i].how = "index"
               /\ (sub_dir \o call.trace[i].doc[key].s) \in DOMAIN bucket
               /\ ~IsError(FullDoc(call.trace[i].doc))) =>
                \A p \in DOMAIN call.trace[i].out :
                    /\ p \in DOMAIN FullDoc(call.trace[i].doc)
                    /\ call.trace[i].out[p] = FullDoc(call.trace[i].doc)[p]

\* the properties a caller requests
Requested(properties) ==
    IF "list" \in DOMAIN properties
    THEN {properties.list[i] : i \in DOMAIN properties.list}
    ELSE IF "dict" \in DOMAIN properties THEN DOMAIN properties.dict ELSE {}

\* C9: for each index entry of query(), the blob backend is not read iff
\* properties was given (a list or a dict) and every requested property is a
\* field of the entry, and the result is then the entry restricted to the
\* requested properties; in every other case the blob at sub_dir + key is
\* fetched.
C9_BlobReadIffNeeded ==
    InQuery =>
        \A i \in DOMAIN call.trace :
            LET st == call.trace[i]
                given == "none" \notin DOMAIN call.properties
                inEntry == \A p \in Requested(call.properties) : p \in DOMAIN st.doc
            IN  /\ (st.got = "") <=> (given /\ inEntry)
                /\ (st.got = "") =>
                      /\ st.how = "index"
                      /\ DOMAIN st.out = Requested(call.properties)
                      /\ \A p \in DOMAIN st.out : st.out[p] = st.doc[p]
                /\ (st.got # "") => st.got = sub_dir \o st.doc[key].s

\* a query with a list of properties answered one entry from the index and
\* fetched the blob of another, which lacks a requested property
C9_Witness ==
    /\ InQuery
    /\ "list" \in DOMAIN call.properties
    /\ \E i, j \in DOMAIN call.trace :
          /\ call.trace[i].how = "index"
          /\ call.trace[j].how = "blob"
          /\ "x" \notin DOMAIN call.trace[j].doc

\* C10: remove_docs(criteria, remove_s3_object=False) deletes only the index
\* entries matching criteria: the blob objects, their bodies and metadata are
\* unchanged, and the index entries not matching criteria are unchanged.
C10_SoftDeleteFrame ==
    (InRemove /\ ~call.remove_s3_object) =>
        /\ bucket = call.bucket0
        /\ call.phase = "returned" =>
              /\ DOMAIN index = DOMAIN call.index0 \ call.criteria
              /\ \A k \in DOMAIN index : index[k] = call.index0[k]

\* a soft delete has returned: it removed an entry whose blob is still there
\* and left another entry
C10_Witness ==
    /\ InRemove /\ ~call.remove_s3_object /\ call.phase = "returned"
    /\ \E k \in Selected : (sub_dir \o k) \in DOMAIN bucket
    /\ DOMAIN index # {}

\* C11: a remove_docs() with blob removal that matched n keys has, when it
\* returns, issued ceil(n / ChunkSize) delete_objects calls; each names at
\* most ChunkSize keys and all but the last exactly ChunkSize (none for
\* n = 0); the calls are disjoint and together name exactly the matching
\* keys, each prefixed with sub_dir.
C11_ChunkedDeletes ==
    (InRemove /\ WithObjects(call) /\ call.phase = "returned") =>
        LET n == Cardinality(Matching(call.index0, call.criteria))
            reqs == call.requests
        IN  /\ Len(reqs) = (n + ChunkSize - 1) \div ChunkSize
            /\ \A i \in DOMAIN reqs :
                /\ Cardinality(reqs[i]) <= ChunkSize
                /\ i < Len(reqs) => Cardinality(reqs[i]) = ChunkSize
                /\ \A j \in DOMAIN reqs : i # j => reqs[i] \cap reqs[j] = {}
            /\ UNION Range(reqs) =
                   {sub_dir \o k : k \in Matching(call.index0, call.criteria)}

\* a remove_docs() with blob removal of MaxBulk matching keys has returned
\* after three delete_objects calls, the last one short
C11_Witness ==
    /\ InRemove /\ WithObjects(call) /\ call.phase = "returned"
    /\ Cardinality(Matching(call.index0, call.criteria)) = MaxBulk
    /\ Len(call.requests) = 3
    /\ Cardinality(call.requests[3]) = MaxBulk - 2 * ChunkSize
    /\ sub_dir # ""

\* C12: a connect() made while the bucket does not exist fails and leaves
\* the index store unconnected, also when it follows an earlier failed
\* connect(); so a connect() that has returned has left a bucket handle set.
C12_MissingBucketFailsConnect ==
    call.op = "connect" =>
        /\ ~call.present => (call.phase = "raised" /\ ~index_open)
        /\ call.phase = "returned" => s3_bucket # "None"

\* the state a store is in after close()
Closed == <<s3, s3_bucket, index_open>> = <<"None", "None", FALSE>>

\* C13: close() never fails, whatever the store's state (never connected,
\* connected, already closed, left half-connected by a failed connect());
\* when it has returned, s3 and s3_bucket are None and the index store is
\* closed, so a close() of a closed store changes nothing; and a connect()
\* made in that state looks the bucket up again: it returns, with both
\* handles set, exactly when the bucket exists.
C13_CloseIdempotentTotal ==
    /\ call.op = "close" => (call.phase = "returned" /\ Closed)
    /\ (call.op = "connect" /\ call.s3_before = "None") =>
        /\ call.phase = "returned" <=> call.present
        /\ call.phase = "returned" =>
               (s3 = "resource" /\ s3_bucket = "Bucket" /\ index_open)

\* a close() of a store that was already closed has returned
C13_Witness ==
    /\ call.op = "close" /\ call.phase = "returned"
    /\ call.before = <<"None", "None", FALSE>>
    /\ Closed

MetadataOps == {"count", "distinct", "groupby", "ensure_index", "last_updated", "newer_in"}

WithHandle(o, h) == IF o.cls = "S3Store" THEN [o EXCEPT !.s3_bucket = h] ELSE o

\* C15: self == other is true exactly when other is an S3Store whose index
\* store equals self's, whose bucket name equals self's and whose
\* last-updated field name equals self's; the answer is the same whatever
\* the connection state of either store.
C15_Equality ==
    call.op = "__eq__" =>
        /\ call.result <=>
            /\ call.other.cls = "S3Store"
            /\ call.self.index = call.other.index
            /\ call.self.bucket = call.other.bucket
            /\ call.self.last_updated_field = call.other.last_updated_field
        /\ \A h1, h2 \in {"None", "Bucket"} :
            S3Store_eq(WithHandle(call.self, h1), WithHandle(call.other, h2))
                = call.result

\* a connected store and an unconnected one, with different sub_dir, have
\* compared equal
C15_Witness ==
    /\ call.op = "__eq__"
    /\ call.result
    /\ call.self.s3_bucket # call.other.s3_bucket
    /\ call.self.sub_dir # call.other.sub_dir

InRebuildIndex == call.op = "rebuild_index_from_s3_data" /\ call.phase = "returned"
\* the keys whose document update() wrote to the bucket and whose entry the
\* index had lost when the rebuild began
LostKeys ==
    {k \in Keys : /\ ObjectKey(k) \in DOMAIN bucket
                  /\ \E D \in WrittenAs(bucket[ObjectKey(k)].Body) : D[key].s = k
                  /\ k \notin DOMAIN call.index0}

\* C16: when rebuild_index_from_s3_data() has returned, the key of every
\* object of the bucket has an index entry, and for every document written
\* by update() whose index entry was lost, the index has an entry of its key
\* again with which query() decodes the blob to that document.
C16_RebuildRecovers ==
    InRebuildIndex =>
        /\ \A ok \in DOMAIN bucket : bucket[ok].Metadata[key].s \in DOMAIN index
        /\ \A k \in LostKeys :
            /\ k \in DOMAIN index
            /\ \A D \in WrittenAs(bucket[ObjectKey(k)].Body) :
                   Decoded(index[k], bucket[ObjectKey(k)].Body) = D

\* C16 on a bucket that holds no object outside the store's sub_dir
C16_ExclusiveBucket ==
    (DOMAIN bucket \subseteq OwnObjects) => C16_RebuildRecovers

\* a rebuild has returned on a bucket that holds only the store's objects,
\* one of them a document whose entry was lost
C16_ExclusiveWitness ==
    /\ InRebuildIndex
    /\ DOMAIN bucket \subseteq OwnObjects
    /\ LostKeys # {}

InMeta == call.op = "rebuild_metadata_from_index"
\* the entry of the call's index whose object is ok
EntryOf(ok) == call.index0[CHOOSE k \in DOMAIN call.index0 : ObjectKey(k) = ok]
\* what the claim says the metadata of ok becomes
OverlaidMetadata(ok) ==
    LET m == NewMeta(EntryOf(ok), call.bucket0[ok].Metadata)
    IN  [f \in DOMAIN m \ {"_id"} |-> m[f]]

\* the effects C17 describes: an object the call has rewritten keeps its
\* body and gets the old metadata overlaid by its entry's fields, keys
\* lower-cased, without "_id"; every other object is as it was
C17_CopyEffect ==
    InMeta =>
        /\ DOMAIN bucket = DOMAIN call.bucket0
        /\ \A ok \in DOMAIN bucket :
            IF ok \in call.copied
            THEN /\ bucket[ok].Body = call.bucket0[ok].Body
                 /\ bucket[ok].Metadata = OverlaidMetadata(ok)
                 /\ \A f \in DOMAIN bucket[ok].Metadata : Lower(f) = f /\ f # "_id"
            ELSE bucket[ok] = call.bucket0[ok]
        /\ call.copied \subseteq {ObjectKey(k) : k \in Matching(call.index0, call.criteria)}

\* C17: rebuild_metadata_from_index(criteria) completes for every matching
\* index entry whether or not the entry or the object's metadata carries
\* "_id" (it fails only when the backend does), with the effects above.
C17_RebuildMetadataCompletes ==
    /\ C17_CopyEffect
    /\ (InMeta /\ call.phase = "raised") => call.error = "ClientError"
    /\ (InMeta /\ call.phase = "returned") =>
           call.copied = {ObjectKey(k) : k \in Matching(call.index0, call.criteria)}

\* a call has rewritten the objects of two entries that carry "_id"
C17_EffectWitness ==
    /\ InMeta /\ call.phase = "returned"
    /\ Cardinality(call.copied) = 2
    /\ \E ok \in call.copied : bucket[ok].Metadata # call.bucket0[ok].Metadata

\* the object key ok lies under the store's sub_dir
UnderSubDir(ok) == \E i \in DOMAIN ObjectOrder : ok = sub_dir \o ObjectOrder[i]

\* C18 (I4): every object key an operation of the store names starts with
\* sub_dir: the keys remove_docs() sends to delete_objects, the keys
\* query() reads and the objects rebuild_index_from_s3_data() enumerates and
\* takes index entries from; an object outside sub_dir is never changed.
C18_PrefixScoped ==
    /\ InRemove =>
           \A i \in DOMAIN call.requests : \A ok \in call.requests[i] : UnderSubDir(ok)
    /\ InQuery =>
           \A i \in DOMAIN call.trace :
               call.trace[i].how = "blob" => UnderSubDir(GetKey(call.trace[i].doc))
    /\ InRebuildIndex =>
           \A i \in DOMAIN call.listed : UnderSubDir(call.listed[i])
    /\ \A ok \in DOMAIN bucket :
           ~UnderSubDir(ok) => bucket[ok] = ForeignObjects({"k2"})[ok]

\* C18 without the enumeration of rebuild_index_from_s3_data()
C18_ExceptRebuildIndex ==
    InRebuildIndex \/ C18_PrefixScoped

\* C19: isostr_to_dt(dt_to_isoformat_ceil_ms(t)) is a whole number of
\* milliseconds and not earlier than t, and two timestamps of the same
\* millisecond are normalized to the same string.
C19_CeilingRoundTrip ==
    /\ (call.op = "isostr_to_dt" /\ "iso" \in DOMAIN call.s) =>
           (call.dt.us % 1000 = 0 /\ call.dt.us >= call.t.us)
    /\ call.op = "dt_to_isoformat_ceil_ms" =>
           (call.t1.us \div 1000 = call.t2.us \div 1000 => call.s1 = call.s2)

\* the normalized string of a timestamp that is not a whole millisecond has
\* been parsed, across the turn of a second
C19_Witness ==
    /\ call.op = "isostr_to_dt" /\ "iso" \in DOMAIN call.s
    /\ call.t.us % 1000 # 0
    /\ call.dt.us \div 1000000 > call.t.us \div 1000000

InTimeout == call.op = "Timeout"
\* the alarm state of a process that started with sa, n seconds later, if
\* nobody touched it
Undisturbed(sa, n) == [sa EXCEPT !.alarm = IF @ > n THEN @ - n ELSE 0]

\* C20: in a scope Timeout(N), TimeoutError is raised in the body exactly
\* when N is truthy and the body is still running N seconds after entry; a
\* body that ends before that, normally or by raising, ends as it would
\* without the scope; once the scope is left no alarm it armed is pending
\* or goes off; and with N = 0 or None the process's alarm and handler are
\* what they would be without the scope.
C20_TimeoutScope ==
    InTimeout =>
        /\ call.error = "TimeoutError" <=>
               (Truthy(call.N) /\ call.elapsed >= call.N.int)
        /\ call.error = "TimeoutError" => (call.work >= call.N.int /\ call.phase = "raised")
        /\ (call.phase # "body" /\ call.error # "TimeoutError") =>
               /\ call.elapsed = call.work
               /\ call.error = (IF call.raises THEN "BodyError" ELSE "")
        /\ ~call.late
        /\ (Truthy(call.N) /\ call.phase # "body") => sigalrm.alarm = 0
        /\ ~Truthy(call.N) =>
               sigalrm = Undisturbed(call.before, call.elapsed + call.after)

\* a body that ended before the N seconds of its scope, and the time N has
\* passed since
C20_Witness ==
    /\ InTimeout /\ Truthy(call.N)
    /\ call.phase = "returned"
    /\ call.work < call.N.int
    /\ call.elapsed + call.after > call.N.int

Substituted(d0, d, alias, k) ==
    IF has(d0, k)
    THEN /\ get(d, alias) = get(d0, k)
         /\ ~has(d, k)
         /\ \A j \in 1..(Len(k) - 1) :
                LET p == SubSeq(k, 1, j)
                    others == DOMAIN get(d0, p) \ {k[j + 1]}
                IN  /\ has(d, p) => get(d, p) # EmptyDict
                    /\ others # {} => has(d, p)
                    /\ \A n \in others : get(d, Append(p, n)) = get(d0, Append(p, n))
    ELSE ~has(d, alias)
\* the top-level keys of d0 that no alias of the call names
Unrelated(d0, aliases) ==
    DOMAIN d0 \ {to_path(aliases[i][2])[1] : i \in DOMAIN aliases}

\* C22: substitute(d, aliases) returns with, for every alias whose canonical
\* path is in d, the value at the alias path, the canonical entry gone and the
\* parents it emptied gone, the other keys of its parents and the unrelated
\* keys as they were; an alias whose canonical path is absent changes nothing.
C22_Substitute ==
    call.op = "substitute" =>
        /\ call.phase = "returned"
        /\ \A i \in DOMAIN call.aliases :
            Substituted(call.d0, call.d, to_path(call.aliases[i][1]),
                        to_path(call.aliases[i][2]))
        /\ \A n \in Unrelated(call.d0, call.aliases) :
            n \in DOMAIN call.d /\ call.d[n] = call.d0[n]
        /\ (\A i \in DOMAIN call.aliases : ~has(call.d0, to_path(call.aliases[i][2])))
            => call.d = call.d0

\* The same holds of every call that does not empty two parents in a row.
C22_ExceptDeepPrune ==
    (call.op = "substitute" /\ call.phase = "returned") =>
        /\ \A i \in DOMAIN call.aliases :
            Substituted(call.d0, call.d, to_path(call.aliases[i][1]),
                        to_path(call.aliases[i][2]))
        /\ \A n \in Unrelated(call.d0, call.aliases) :
            n \in DOMAIN call.d /\ call.d[n] = call.d0[n]
        /\ (\A i \in DOMAIN call.aliases : ~has(call.d0, to_path(call.aliases[i][2])))
            => call.d = call.d0
\* substitute({'a': {'b': '1'}}, {'x': 'a.b'}) has left {'x': '1'}
C22_ShallowWitness ==
    /\ call.op = "substitute" /\ call.phase = "returned"
    /\ call.d0 = [n \in {"a"} |-> [m \in {"b"} |-> Str("1")]]
    /\ call.aliases = <<<<"x", "a.b">>>>
    /\ call.d = [n \in {"x"} |-> Str("1")]
\* a call raised only where "a.b.c" was alone in "a.b" and "a.b" alone in "a"
C22_RaisesOnDeepPrune ==
    (call.op = "substitute" /\ call.phase = "raised") =>
        /\ DOMAIN call.d0["a"] = {"b"} /\ DOMAIN call.d0["a"]["b"] = {"c"}
        /\ \E i \in DOMAIN call.aliases : call.aliases[i][2] = "a.b.c"

\* C23: during update() at most s3_workers writes are in flight, and once
\* update() is past its pool (committing, returned or raised) no write is
\* pending or running; no other call has writes.
C23_BoundedPool ==
    /\ InUpdate =>
        /\ Cardinality(Running(call.fs)) <= s3_workers
        /\ call.phase # "wait" => Completed(call.fs)
    /\ ~InUpdate => "fs" \notin DOMAIN call
\* the bound at work: every worker is writing while a write waits for one
C23_Witness ==
    /\ InUpdate
    /\ Cardinality(Running(call.fs)) = s3_workers
    /\ \E i \in DOMAIN call.fs : call.fs[i] = "pending"

\* what the claim says of the index entry e of the document D
EntryFor(e, D, search_keys) ==
    LET fields == (Range(search_keys) \cup {key}) \ {"_id"}
    IN  /\ fields \subseteq DOMAIN e
        /\ DOMAIN e \subseteq fields \cup {"sub_dir", "compression"}
        /\ e[key] = D[key]
        /\ \A f \in fields \ {last_updated_field} : e[f] = D[f]
        /\ "sub_dir" \in DOMAIN e <=> sub_dir # ""
        /\ "sub_dir" \in DOMAIN e => e["sub_dir"] = Str(sub_dir)
        /\ "compression" \in DOMAIN e <=> compress
        /\ "compression" \in DOMAIN e => e["compression"] = Str("zlib")
        /\ last_updated_field \in fields =>
            /\ DOMAIN e[last_updated_field] = {"iso"}
            /\ (e[last_updated_field].iso - 1) * 1000 <= D[last_updated_field].us
            /\ D[last_updated_field].us < e[last_updated_field].iso * 1000
        /\ "_id" \notin DOMAIN e

\* C24: the batch update() passes to the index store has one entry per input
\* document, each with the document's key value, its search-key values, sub_dir
\* iff the store has one, compression = zlib iff the store compresses, the
\* last-updated field as a millisecond ISO string, and without "_id".
C24_IndexEntries ==
    (InUpdate /\ call.phase \in {"commit", "returned"}) =>
        \E p \in Permutations(DOMAIN call.docs) :
            /\ DOMAIN call.search_docs = DOMAIN call.docs
            /\ \A i \in DOMAIN call.docs :
                EntryFor(call.search_docs[i], call.docs[p[i]], call.search_keys)
\* a compressing store with a sub_dir has passed the entries of two documents
\* of one call, made with "_id" and the last-updated field among the search keys
C24_Witness ==
    /\ InUpdate /\ call.phase = "returned"
    /\ Len(call.docs) = 2
    /\ {"_id", last_updated_field} \subseteq Range(call.search_keys)
    /\ sub_dir # "" /\ compress
    /\ \A i \in DOMAIN call.docs : index[call.docs[i][key].s] \in Range(call.search_docs)

\* C25: once update() has returned, for every key of its batch the index
\* entry and the object come from the same document of the batch: the object's
\* body is that document's serialization, the entry is that document's
\* metadata, and the entry says compression = zlib iff the body is compressed.
C25_EntryMatchesBlob ==
    (InUpdate /\ call.phase = "returned") =>
        \A k \in BatchKeys :
            /\ k \in DOMAIN index /\ ObjectKey(k) \in DOMAIN bucket
            /\ \E i \in DOMAIN call.docs :
                /\ bucket[ObjectKey(k)].Body = BodyOf(call.docs[i])
                /\ index[k] = SearchDoc(call.docs[i], call.search_keys)
            /\ "compression" \in DOMAIN index[k]
                <=> DOMAIN bucket[ObjectKey(k)].Body = {"z"}

\* An update() of documents with different keys leaves them matching.
C25_DistinctKeysMatch ==
    (InUpdate /\ call.phase = "returned" /\ Cardinality(BatchKeys) = Len(call.docs)) =>
        \A k \in BatchKeys :
            /\ k \in DOMAIN index /\ ObjectKey(k) \in DOMAIN bucket
            /\ \E i \in DOMAIN call.docs :
                /\ bucket[ObjectKey(k)].Body = BodyOf(call.docs[i])
                /\ index[k] = SearchDoc(call.docs[i], call.search_keys)
            /\ "compression" \in DOMAIN index[k]
                <=> DOMAIN bucket[ObjectKey(k)].Body = {"z"}

\* C26: when an update() and a remove_docs(criteria, remove_s3_object=True)
\* of two callers have both returned, every key that the update wrote and the
\* criteria match has both its index entry and its object, or neither.
C26_EntryAndBlobTogether ==
    \A u \in {call, peer}, r \in {call, peer} :
        (/\ u.op = "update" /\ u.phase = "returned"
         /\ r.op = "remove_docs" /\ r.phase = "returned" /\ r.remove_s3_object) =>
            \A k \in {u.docs[i][key].s : i \in DOMAIN u.docs} \cap r.criteria :
                k \in DOMAIN index <=> ObjectKey(k) \in DOMAIN bucket

\* C27: two stores that compare equal under __eq__ have the same hash, their
\* index stores being one instance or two equal ones; and the hash of a store
\* is the same whatever its connection state.
C27_HashFollowsEq ==
    call.op = "__hash__" =>
        /\ S3Store_eq(call.self, call.other) => call.result[1] = call.result[2]
        /\ \A h \in {"None", "Bucket"} :
            S3Store_hash(WithHandle(call.self, h), call.ids[1]) = call.result[1]

\* Stores that share one index store instance and compare equal hash alike,
\* and connect() and close() do not change a hash.
C27_SharedIndexInstance ==
    call.op = "__hash__" =>
        /\ (S3Store_eq(call.self, call.other) /\ call.ids[1] = call.ids[2])
            => call.result[1] = call.result[2]
        /\ \A h \in {"None", "Bucket"} :
            S3Store_hash(WithHandle(call.self, h), call.ids[1]) = call.result[1]

====
